---------------------------- MODULE Spec2Model ----------------------------
(***************************************************************************)
(* rbchunk: conversion of a BIN/CUE disc image into one file per track.    *)
(* The model follows src/src/lib.rs: Args::new, read_cue (one sheet line   *)
(* per step), and Track::write_to_file (one I/O call sequence per step).   *)
(*                                                                         *)
(* Text is a sequence of one-character strings, a sheet line is the        *)
(* sequence of its whitespace-separated tokens.  u64 and u32 values are    *)
(* little-endian sequences of 16-bit limbs (4 and 2 of them), so that      *)
(* wrapping and truncation are computed at the width the code uses.        *)
(* Console output (println!, eprintln!) is not part of the state.          *)
(***************************************************************************)
EXTENDS Integers, Sequences, FiniteSets

\* ------------------------------------------------------------------------
\* Fixed-width unsigned integers
\* ------------------------------------------------------------------------

LimbBase == 256 * 256

RECURSIVE NatLimbs(_, _)
\* n < 2^31 written on k limbs (truncated to k limbs)
NatLimbs(n, k) ==
    IF k = 0 THEN <<>> ELSE <<n % LimbBase>> \o NatLimbs(n \div LimbBase, k - 1)

U64(n) == NatLimbs(n, 4)
U32(n) == NatLimbs(n, 2)

RECURSIVE IsZero(_)
IsZero(x) == x = <<>> \/ (Head(x) = 0 /\ IsZero(Tail(x)))

\* the value of x when it is below 2^31, and -1 when it is not
SmallNat(x) ==
    IF x[2] < 32768 /\ IsZero(SubSeq(x, 3, Len(x))) THEN x[1] + LimbBase * x[2] ELSE -1

RECURSIVE AddLimbs(_, _, _, _)
AddLimbs(x, y, k, carry) ==
    IF k > Len(x) THEN [val |-> <<>>, ovf |-> carry # 0]
    ELSE LET s == x[k] + y[k] + carry
             r == AddLimbs(x, y, k + 1, s \div LimbBase)
         IN  [val |-> <<s % LimbBase>> \o r.val, ovf |-> r.ovf]

\* x + y at the width of x: the wrapped sum, and whether it overflowed
Add(x, y) == AddLimbs(x, y, 1, 0)

RECURSIVE SubLimbs(_, _, _, _)
SubLimbs(x, y, k, borrow) ==
    IF k > Len(x) THEN [val |-> <<>>, ovf |-> borrow # 0]
    ELSE LET d == x[k] - y[k] - borrow
             r == SubLimbs(x, y, k + 1, IF d < 0 THEN 1 ELSE 0)
         IN  [val |-> <<(d + LimbBase) % LimbBase>> \o r.val, ovf |-> r.ovf]

\* x - y at the width of x: the wrapped difference, and whether it underflowed
Sub(x, y) == SubLimbs(x, y, 1, 0)

RECURSIVE MulLimbs(_, _, _, _)
MulLimbs(x, m, k, carry) ==
    IF k > Len(x) THEN [val |-> <<>>, ovf |-> carry # 0]
    ELSE LET p == x[k] * m + carry
             r == MulLimbs(x, m, k + 1, p \div LimbBase)
         IN  [val |-> <<p % LimbBase>> \o r.val, ovf |-> r.ovf]

\* x * m for a multiplier m < 2^15
Mul(x, m) == MulLimbs(x, m, 1, 0)

RECURSIVE DivLimbs(_, _, _, _)
DivLimbs(x, d, k, rem) ==
    IF k = 0 THEN <<>>
    ELSE LET n == rem * LimbBase + x[k]
         IN  DivLimbs(x, d, k - 1, n % d) \o <<n \div d>>

\* x / d (integer division) for a divisor 0 < d < 2^15
Div(x, d) == DivLimbs(x, d, Len(x), 0)

RECURSIVE ModLimbs(_, _, _, _)
ModLimbs(x, d, k, rem) ==
    IF k = 0 THEN rem ELSE ModLimbs(x, d, k - 1, (rem * LimbBase + x[k]) % d)

Mod(x, d) == ModLimbs(x, d, Len(x), 0)

RECURSIVE LessLimbs(_, _, _)
LessLimbs(x, y, k) ==
    IF k = 0 THEN FALSE
    ELSE IF x[k] # y[k] THEN x[k] < y[k]
    ELSE LessLimbs(x, y, k - 1)

\* x < y, unsigned, for x and y of one width
Less(x, y) == LessLimbs(x, y, Len(x))

\* `x as u32` of a u64
AsU32(x) == SubSeq(x, 1, 2)

RECURSIVE LeBytes(_)
\* to_le_bytes
LeBytes(x) ==
    IF x = <<>> THEN <<>>
    ELSE <<Head(x) % 256, Head(x) \div 256>> \o LeBytes(Tail(x))

\* Option<T>: None is the empty sequence, Some(v) the sequence of v alone
None == <<>>
Some(v) == <<v>>
IsNone(o) == o = <<>>
IsSome(o) == o # <<>>
Unwrap(o) == o[1]

\* ------------------------------------------------------------------------
\* Text
\* ------------------------------------------------------------------------

Digits == <<"0", "1", "2", "3", "4", "5", "6", "7", "8", "9">>

DigitValue(c) == CHOOSE d \in 0..9 : Digits[d + 1] = c
IsDigit(c) == \E d \in 0..9 : Digits[d + 1] = c

RECURSIVE ParseDigits(_, _)
\* the digits of s appended to the value acc; <<>> when the value leaves the width
ParseDigits(s, acc) ==
    IF s = <<>> THEN Some(acc)
    ELSE LET m == Mul(acc, 10)
             a == Add(m.val, NatLimbs(DigitValue(Head(s)), Len(acc)))
         IN  IF m.ovf \/ a.ovf THEN None ELSE ParseDigits(Tail(s), a.val)

\* str::parse for an unsigned integer of `limbs` limbs: Some(value), or None
\* for the Err cases (empty, a non-digit, a lone sign, out of range)
ParseUnsigned(s, limbs) ==
    LET body == IF s # <<>> /\ Head(s) = "+" THEN Tail(s) ELSE s
    IN  IF body = <<>> \/ \E i \in 1..Len(body) : ~IsDigit(body[i]) THEN None
        ELSE ParseDigits(body, NatLimbs(0, limbs))

RECURSIVE Split(_, _)
\* str::split(sep): the pieces of s between the separators (at least one piece)
Split(s, sep) ==
    IF \A i \in 1..Len(s) : s[i] # sep THEN <<s>>
    ELSE LET i == CHOOSE j \in 1..Len(s) :
                      s[j] = sep /\ \A l \in 1..(j - 1) : s[l] # sep
         IN  <<SubSeq(s, 1, i - 1)>> \o Split(SubSeq(s, i + 1, Len(s)), sep)

RECURSIVE Decimal(_)
\* Display of an unsigned integer
Decimal(x) ==
    IF IsZero(Div(x, 10)) THEN <<Digits[Mod(x, 10) + 1]>>
    ELSE Decimal(Div(x, 10)) \o <<Digits[Mod(x, 10) + 1]>>

RECURSIVE PadLeft(_, _, _)
\* format {:c>w}: right-aligned in at least w characters, filled with c
PadLeft(s, w, c) == IF Len(s) >= w THEN s ELSE PadLeft(<<c>> \o s, w, c)


\* The ASCII codes of the characters of the WAV tags (str::as_bytes)
Ascii(c) ==
    CASE c = "R" -> 82  [] c = "I" -> 73  [] c = "F" -> 70  [] c = "W" -> 87
      [] c = "A" -> 65  [] c = "V" -> 86  [] c = "E" -> 69  [] c = "f" -> 102
      [] c = "m" -> 109 [] c = "t" -> 116 [] c = " " -> 32  [] c = "d" -> 100
      [] c = "a" -> 97

AsBytes(s) == [i \in 1..Len(s) |-> Ascii(s[i])]

\* ------------------------------------------------------------------------
\* Constants of lib.rs
\* ------------------------------------------------------------------------

WAV_RIFF_HEADER_LENGTH == 12
WAV_FORMAT_HEADER_LENGTH == 24
WAV_DATA_HEADER_LENGTH == 8
WAV_HEADER_LENGTH ==
    WAV_RIFF_HEADER_LENGTH + WAV_FORMAT_HEADER_LENGTH + WAV_DATA_HEADER_LENGTH

SECTOR_SIZE == 2352

\* ------------------------------------------------------------------------
\* Mode, Extension, Track
\* ------------------------------------------------------------------------

Modes == {"Unknown", "Audio", "Mode1_2352", "Mode2_2352", "Mode2_2336"}

MODE_AUDIO == <<"A", "U", "D", "I", "O">>
MODE1_2352 == <<"M", "O", "D", "E", "1", "/", "2", "3", "5", "2">>
MODE2_2352 == <<"M", "O", "D", "E", "2", "/", "2", "3", "5", "2">>
MODE2_2336 == <<"M", "O", "D", "E", "2", "/", "2", "3", "3", "6">>

\* impl From<&str> for Mode
ModeFrom(s) ==
    IF s = MODE_AUDIO THEN "Audio"
    ELSE IF s = MODE1_2352 THEN "Mode1_2352"
    ELSE IF s = MODE2_2336 THEN "Mode2_2336"
    ELSE IF s = MODE2_2352 THEN "Mode2_2352"
    ELSE "Unknown"

\* impl AsRef<str> for Extension
ExtensionStr(e) ==
    CASE e = "Ugh" -> <<"u", "g", "h">>
      [] e = "Iso" -> <<"i", "s", "o">>
      [] e = "Cdr" -> <<"c", "d", "r">>
      [] e = "Wav" -> <<"w", "a", "v">>

\* #[derive(Default)] struct Track
DefaultTrack ==
    [start_sector |-> U64(0), stop_sector |-> None, start |-> U64(0), stop |-> None,
     mode |-> "Unknown", extension |-> "Ugh", number |-> U32(0), audio |-> FALSE,
     data_block_offset |-> 0, data_block_size |-> 0]

\* get_track_mode with the psx_truncate test ahead of the raw test
get_track_mode_psx_first(t, a) ==
    CASE t.mode = "Unknown" ->
           [t EXCEPT !.data_block_offset = 0, !.data_block_size = 2352,
                     !.extension = "Ugh"]
      [] t.mode = "Audio" ->
           [t EXCEPT !.data_block_offset = 0, !.data_block_size = 2352,
                     !.audio = TRUE,
                     !.extension = IF a.to_wav THEN "Wav" ELSE "Cdr"]
      [] t.mode = "Mode1_2352" ->
           [t EXCEPT !.data_block_offset = 16, !.data_block_size = 2048,
                     !.extension = "Iso"]
      [] t.mode = "Mode2_2352" ->
           IF a.psx_truncate
           THEN [t EXCEPT !.extension = "Iso",
                          !.data_block_offset = 0, !.data_block_size = 2336]
           ELSE IF a.raw
           THEN [t EXCEPT !.extension = "Iso",
                          !.data_block_offset = 0, !.data_block_size = 2352]
           ELSE [t EXCEPT !.extension = "Iso",
                          !.data_block_offset = 24, !.data_block_size = 2048]
      [] t.mode = "Mode2_2336" ->
           [t EXCEPT !.data_block_offset = 16, !.data_block_size = 2336,
                     !.extension = "Iso"]

\* Track::get_track_mode: the track with its payload window, extension and
\* audio flag set from its mode and the options
get_track_mode(t, a) ==
    CASE t.mode = "Unknown" ->
           [t EXCEPT !.data_block_offset = 0, !.data_block_size = 2352,
                     !.extension = "Ugh"]
      [] t.mode = "Audio" ->
           [t EXCEPT !.data_block_offset = 0, !.data_block_size = 2352,
                     !.audio = TRUE,
                     !.extension = IF a.to_wav THEN "Wav" ELSE "Cdr"]
      [] t.mode = "Mode1_2352" ->
           [t EXCEPT !.data_block_offset = 16, !.data_block_size = 2048,
                     !.extension = "Iso"]
      [] t.mode = "Mode2_2352" ->
           IF a.raw
           THEN [t EXCEPT !.extension = "Iso",
                          !.data_block_offset = 0, !.data_block_size = 2352]
           ELSE IF a.psx_truncate
           THEN [t EXCEPT !.extension = "Iso",
                          !.data_block_offset = 0, !.data_block_size = 2336]
           ELSE [t EXCEPT !.extension = "Iso",
                          !.data_block_offset = 24, !.data_block_size = 2048]
      [] t.mode = "Mode2_2336" ->
           [t EXCEPT !.data_block_offset = 16, !.data_block_size = 2336,
                     !.extension = "Iso"]

\* stop_sector - start_sector + 1 as the code computes it (lib.rs 119, 152):
\* the wrapped value, and whether the subtraction or the addition overflowed
SectorCount(t) ==
    LET d == Sub(Unwrap(t.stop_sector), t.start_sector)
        s == Add(d.val, U64(1))
    IN  [val |-> s.val, ovf |-> d.ovf \/ s.ovf]

\* sectors * data_block_size as u64
PayloadLength(t) ==
    LET n == SectorCount(t)
        m == Mul(n.val, t.data_block_size)
    IN  [val |-> m.val, ovf |-> n.ovf \/ m.ovf]

\* wav_header with the whole header counted into the RIFF length
wav_header_riff_whole(t) ==
    LET reallen == PayloadLength(t)
        a1 == Add(AsU32(reallen.val), U32(WAV_DATA_HEADER_LENGTH))
        a2 == Add(a1.val, U32(WAV_FORMAT_HEADER_LENGTH))
        a3 == Add(a2.val, U32(WAV_RIFF_HEADER_LENGTH))
    IN  [bytes |->
             AsBytes(<<"R", "I", "F", "F">>) \o LeBytes(a3.val)
          \o AsBytes(<<"W", "A", "V", "E">>)
          \o AsBytes(<<"f", "m", "t", " ">>)
          \o LeBytes(U32(16)) \o LeBytes(NatLimbs(1, 1)) \o LeBytes(NatLimbs(2, 1))
          \o LeBytes(U32(44100)) \o LeBytes(U32(44100 * 4))
          \o LeBytes(NatLimbs(4, 1)) \o LeBytes(NatLimbs(16, 1))
          \o AsBytes(<<"d", "a", "t", "a">>) \o LeBytes(AsU32(reallen.val)),
         ovf |-> reallen.ovf \/ a1.ovf \/ a2.ovf \/ a3.ovf]

\* Track::wav_header: the header bytes, and whether a checked build panics on
\* an overflow while computing them
wav_header(t) ==
    LET reallen == PayloadLength(t)
        a1 == Add(AsU32(reallen.val), U32(WAV_DATA_HEADER_LENGTH))
        a2 == Add(a1.val, U32(WAV_FORMAT_HEADER_LENGTH))
        a3 == Add(a2.val, U32(4))
    IN  [bytes |->
             AsBytes(<<"R", "I", "F", "F">>) \o LeBytes(a3.val)
          \o AsBytes(<<"W", "A", "V", "E">>)
          \o AsBytes(<<"f", "m", "t", " ">>)
          \o LeBytes(U32(16)) \o LeBytes(NatLimbs(1, 1)) \o LeBytes(NatLimbs(2, 1))
          \o LeBytes(U32(44100)) \o LeBytes(U32(44100 * 4))
          \o LeBytes(NatLimbs(4, 1)) \o LeBytes(NatLimbs(16, 1))
          \o AsBytes(<<"d", "a", "t", "a">>) \o LeBytes(AsU32(reallen.val)),
         ovf |-> reallen.ovf \/ a1.ovf \/ a2.ovf \/ a3.ovf]

\* time_to_frames with the frames added before the multiplication by 75
time_to_frames_frames_inside(s) ==
    LET parts == Split(s, ":")
        n == IF Len(parts) < 3 THEN Len(parts) ELSE 3
        parsed == [k \in 1..n |-> ParseUnsigned(parts[k], 4)]
        duration == [k \in 1..3 |-> IF k <= n /\ IsSome(parsed[k])
                                    THEN Unwrap(parsed[k]) ELSE U64(0)]
        m60 == Mul(duration[1], 60)
        sec == Add(m60.val, duration[2])
        tot == Add(sec.val, duration[3])
        fr  == Mul(tot.val, 75)
    IN  [ok |-> \A k \in 1..n : IsSome(parsed[k]),
         val |-> fr.val,
         ovf |-> m60.ovf \/ sec.ovf \/ fr.ovf \/ tot.ovf]

\* time_to_frames: [ok, val, ovf]; ok is FALSE for the Err result
time_to_frames(s) ==
    LET parts == Split(s, ":")
        n == IF Len(parts) < 3 THEN Len(parts) ELSE 3
        parsed == [k \in 1..n |-> ParseUnsigned(parts[k], 4)]
        duration == [k \in 1..3 |-> IF k <= n /\ IsSome(parsed[k])
                                    THEN Unwrap(parsed[k]) ELSE U64(0)]
        m60 == Mul(duration[1], 60)
        sec == Add(m60.val, duration[2])
        fr  == Mul(sec.val, 75)
        tot == Add(fr.val, duration[3])
    IN  [ok |-> \A k \in 1..n : IsSome(parsed[k]),
         val |-> tot.val,
         ovf |-> m60.ovf \/ sec.ovf \/ fr.ovf \/ tot.ovf]

\* the last piece of a path (split('/').last()) and the stem of a file name
LastOf(seq) == seq[Len(seq)]
FileStem(path) == Head(Split(LastOf(Split(path, "/")), "."))

\* Args::new: the options as convert uses them
ArgsNew(o) ==
    LET swapped == IF o.cue_file = <<>>
                   THEN [o EXCEPT !.cue_file = o.bin_file, !.bin_file = o.cue_file]
                   ELSE o
    IN  IF swapped.output_name = <<>>
        THEN [swapped EXCEPT !.output_name = FileStem(swapped.cue_file)]
        ELSE swapped

\* the header test without the audio flag
NeedsHeader_any_track(t, a) == a.to_wav

\* `a.to_wav && self.audio` (lib.rs 176)
NeedsHeader(t, a) == a.to_wav /\ t.audio

\* the output file name of a track (lib.rs 146-151)
OutputName(t, a) ==
    a.output_name \o PadLeft(Decimal(t.number), 2, "0") \o <<".">>
        \o ExtensionStr(t.extension)

\* ------------------------------------------------------------------------
\* read_cue: one sheet line
\* ------------------------------------------------------------------------

KW_TRACK == <<"T", "R", "A", "C", "K">>
KW_INDEX == <<"I", "N", "D", "E", "X">>
KW_FILE == <<"F", "I", "L", "E">>

\* the first token of the line that is one of the three keywords (the token
\* the `for e in s.split_whitespace()` loop stops at), or <<>> when there is none
Keyword(line) ==
    LET hits == {k \in 1..Len(line) : line[k] \in {KW_TRACK, KW_INDEX, KW_FILE}}
    IN  IF hits = {} THEN <<>>
        ELSE line[CHOOSE k \in hits : \A l \in hits : k <= l]

\* the results of a step of read_cue or of write_to_file
Continue(tr, a) ==
    [tracks |-> tr, args |-> a, result |-> "Running", error |-> "-"]
Err(tr, a, msg) ==
    [tracks |-> tr, args |-> a, result |-> "Err", error |-> msg]
Panic(tr, a, msg) ==
    [tracks |-> tr, args |-> a, result |-> "Panic", error |-> msg]

SetLast(tr, t) == [tr EXCEPT ![Len(tr)] = t]

\* the "TRACK" arm (lib.rs 321-353)
CueTrack(line, tr, a) ==
    LET pushed == Append(tr, DefaultTrack)
        t == Tail(line)
    IN  IF t = <<>> THEN Err(pushed, a, "Unknown error")
        ELSE LET num == ParseUnsigned(t[1], 2)
             IN  IF IsNone(num) THEN Err(pushed, a, "Error parsing track number!")
                 ELSE LET numbered ==
                              [DefaultTrack EXCEPT !.number = Unwrap(num)]
                      IN  IF Len(t) < 2
                          THEN Err(SetLast(pushed, numbered), a, "Unknown error")
                          ELSE Continue(
                                 SetLast(pushed,
                                     get_track_mode(
                                         [numbered EXCEPT !.mode = ModeFrom(t[2])], a)),
                                 a)

\* the closing of the previous track (lib.rs 372-377); chk: overflow checks on
ClosePrevious(tr, a, chk) ==
    LET n == Len(tr)
        ss == Sub(tr[n].start_sector, U64(1))
        sb == Sub(tr[n].start, U64(1))
    IN  IF n > 1 /\ IsNone(tr[n - 1].stop_sector)
        THEN IF chk /\ ss.ovf THEN Panic(tr, a, "attempt to subtract with overflow")
             ELSE LET tr1 == [tr EXCEPT ![n - 1].stop_sector = Some(ss.val)]
                  IN  IF chk /\ sb.ovf
                      THEN Panic(tr1, a, "attempt to subtract with overflow")
                      ELSE Continue([tr1 EXCEPT ![n - 1].stop = Some(sb.val)], a)
        ELSE Continue(tr, a)

\* the "INDEX" arm (lib.rs 354-382)
CueIndex(line, tr, a, chk) ==
    LET i == Tail(line)
    IN  IF i = <<>> THEN Err(tr, a, "Missing index number")
        ELSE IF Len(i) < 2 THEN Err(tr, a, "Missing INDEX time")
        ELSE LET frames == time_to_frames(i[2])
                 bytes == Mul(frames.val, SECTOR_SIZE)
             IN  IF ~frames.ok
                 THEN Panic(tr, a, "unwrap on an Err value")
                 ELSE IF chk /\ frames.ovf
                 THEN Panic(tr, a, "attempt to multiply with overflow")
                 ELSE IF tr = <<>>
                 THEN Panic(tr, a, "unwrap on a None value")
                 ELSE IF chk /\ bytes.ovf
                 THEN Panic(SetLast(tr, [tr[Len(tr)] EXCEPT !.start_sector = frames.val]),
                            a, "attempt to multiply with overflow")
                 ELSE ClosePrevious(
                          SetLast(tr, [tr[Len(tr)] EXCEPT !.start_sector = frames.val,
                                                          !.start = bytes.val]),
                          a, chk)

\* the quoted name without its first and its last character (lib.rs 387-389)
Unquote(fname) ==
    IF Len(fname) <= 2 THEN <<>> ELSE SubSeq(fname, 2, Len(fname) - 1)

\* the "FILE" arm (lib.rs 383-409); the mismatch only prints a warning
CueFile(line, tr, a) ==
    LET f == Tail(line)
    IN  IF f = <<>> THEN Err(tr, a, "Error reading FILE row")
        ELSE IF a.bin_file = <<>>
        THEN Continue(tr, [a EXCEPT !.bin_file = Unquote(f[1])])
        ELSE Continue(tr, a)

\* the body of `for s in cue.lines()` for one line (lib.rs 318-413)
CueLine(line, tr, a, chk) ==
    LET e == Keyword(line)
    IN  IF e = KW_TRACK THEN CueTrack(line, tr, a)
        ELSE IF e = KW_INDEX THEN CueIndex(line, tr, a, chk)
        ELSE IF e = KW_FILE THEN CueFile(line, tr, a)
        ELSE Continue(tr, a)

\* the end of read_cue (lib.rs 414-431); size: Some(length of the image file),
\* or None when fs::metadata fails
CueEnd(tr, a, size, chk) ==
    IF tr = <<>> THEN Err(tr, a, "No valid CUE data found")
    ELSE IF IsNone(size) THEN Err(tr, a, "Could not open BIN file")
    ELSE LET stop == Sub(Unwrap(size), U64(1))
         IN  IF chk /\ stop.ovf
             THEN Panic(tr, a, "attempt to subtract with overflow")
             ELSE Continue(
                    SetLast(tr, [tr[Len(tr)] EXCEPT
                                   !.stop = Some(stop.val),
                                   !.stop_sector = Some(Div(stop.val, SECTOR_SIZE))]),
                    a)

\* ------------------------------------------------------------------------
\* Track::write_to_file: the sector buffer
\* ------------------------------------------------------------------------

\* A byte is a number below 256 when the program itself produces it (the
\* zeroed buffer, the WAV header).  The program never inspects a byte of the
\* image, so byte p of the image is written 256 + p: whatever its value, where
\* it came from.
ImageByte(p) == 256 + p

ZeroSector == [k \in 1..SECTOR_SIZE |-> 0]

\* the number of bytes reader.read(&mut sector) delivers at position pos of an
\* image of size bytes: a whole sector, or what is left of the file
ReadCount(pos, size) ==
    IF ~Less(pos, size) THEN 0
    ELSE LET left == Sub(size, pos).val
         IN  IF Less(left, U64(SECTOR_SIZE)) THEN SmallNat(left) ELSE SECTOR_SIZE

\* the buffer after a read of n bytes at position pos: the bytes that were not
\* delivered keep what the buffer held
ReadInto(buf, pos, n) ==
    [k \in 1..SECTOR_SIZE |-> IF k <= n THEN ImageByte(SmallNat(pos) + k - 1) ELSE buf[k]]

\* the exchange of pairs begun one byte late: bytes 2k+1 and 2k+2 exchanged
SwapPairs_one_late(buf) ==
    [k \in 1..SECTOR_SIZE |->
        IF k = 1 \/ k = SECTOR_SIZE THEN buf[k]
        ELSE IF k % 2 = 0 THEN buf[k + 1] ELSE buf[k - 1]]

\* the loop of lib.rs 194-196: bytes 2k and 2k+1 exchanged
SwapPairs(buf) ==
    [k \in 1..SECTOR_SIZE |-> IF k % 2 = 1 THEN buf[k + 1] ELSE buf[k - 1]]

\* &sector[data_block_offset .. data_block_offset + data_block_size]
PayloadSlice(buf, t) ==
    SubSeq(buf, t.data_block_offset + 1, t.data_block_offset + t.data_block_size)

\* ------------------------------------------------------------------------
\* Inputs: the files on disk, the options, the lines a sheet is made of
\* ------------------------------------------------------------------------

\* at most MaxLines lines of the sheet are read
MaxLines == 4
\* the image holds at most MaxSectors sectors
MaxSectors == 2
\* the length of an image that ends inside a sector, modulo the sector size
PartialSector == 101
\* a copy loop whose count wrapped is followed for this many iterations
MaxCopies == MaxSectors + 1

A_BIN == <<"a", ".", "b", "i", "n">>
A_CUE == <<"a", ".", "c", "u", "e">>
D_A_BIN == <<"d", "/">> \o A_BIN
D_A_CUE == <<"d", "/">> \o A_CUE

\* the paths under which the image and the sheet can be opened
ImagePaths == {A_BIN, D_A_BIN}
SheetPaths == {A_CUE, D_A_CUE}

\* fs::metadata(path).len() of the image of length len, None for any other path
Metadata(path, len) == IF path \in ImagePaths THEN Some(len) ELSE None

Num2(n) == PadLeft(Decimal(U32(n)), 2, "0")
TimeText(m, sec, f) == Num2(m) \o <<":">> \o Num2(sec) \o <<":">> \o Num2(f)
Quoted(name) == <<"\"">> \o name \o <<"\"">>

TOK_BINARY == <<"B", "I", "N", "A", "R", "Y">>
TOK_REM == <<"R", "E", "M">>
TOK_CDG == <<"C", "D", "G">>
TOK_XX == <<"x", "x">>

TrackLine(num, label) == <<KW_TRACK, num, label>>
IndexLine(idx, time) == <<KW_INDEX, idx, time>>
FileLine(name) == <<KW_FILE, Quoted(name), TOK_BINARY>>

Flags(raw, psx, wav, swab) ==
    [raw |-> raw, psx_truncate |-> psx, to_wav |-> wav, swap_audo_bytes |-> swab]

\* struct Args (without `verbose`, which only selects console output)
MakeArgs(bin, cue, out, f) ==
    [output_name |-> out, bin_file |-> bin, cue_file |-> cue,
     psx_truncate |-> f.psx_truncate, raw |-> f.raw,
     swap_audo_bytes |-> f.swap_audo_bytes, to_wav |-> f.to_wav]

AllFlags == {Flags(r, p, w, s) : r \in BOOLEAN, p \in BOOLEAN, w \in BOOLEAN, s \in BOOLEAN}

\* convert: both paths given, the audio options varied
ConvertArgs ==
    {MakeArgs(A_BIN, A_CUE, <<"o">>, Flags(FALSE, FALSE, w, s)) :
        w \in BOOLEAN, s \in BOOLEAN}

ConvertLines ==
    {TrackLine(Num2(1), MODE_AUDIO), TrackLine(Num2(2), MODE1_2352),
     IndexLine(Num2(1), TimeText(0, 0, 0)), IndexLine(Num2(1), TimeText(0, 0, 1))}

\* image lengths: whole sectors, and images that end inside a sector
ConvertLengths ==
    {Mul(U64(k), SECTOR_SIZE).val : k \in 0..MaxSectors}
        \cup {Add(Mul(U64(k), SECTOR_SIZE).val, U64(PartialSector)).val :
                 k \in 0..(MaxSectors - 1)}

X_BIN == <<"x", ".", "b", "i", "n">>

\* read_cue: the ways convert is given its paths (both, the sheet alone, an
\* image or a sheet that does not exist)
CueArgs ==
    {MakeArgs(p[1], p[2], p[3], Flags(FALSE, FALSE, TRUE, FALSE)) :
        p \in {<<A_BIN, A_CUE, <<"o">>>>, <<D_A_CUE, <<>>, <<>>>>,
               <<X_BIN, A_CUE, <<>>>>, <<A_BIN, X_BIN, <<>>>>}}

\* read_cue: records of the three kinds, well-formed and not, and other lines
CueLines ==
    {FileLine(A_BIN), FileLine(X_BIN), <<KW_FILE>>,
     TrackLine(Num2(1), MODE_AUDIO), TrackLine(Num2(2), MODE1_2352),
     TrackLine(TOK_XX, MODE_AUDIO), <<KW_TRACK>>, <<KW_TRACK, Num2(1)>>,
     IndexLine(Num2(1), TimeText(0, 0, 0)), IndexLine(Num2(0), TimeText(0, 0, 1)),
     IndexLine(Num2(1), TimeText(0, 2, 0)),
     IndexLine(Num2(1), <<"0", "0", ":", "x", ":", "0", "0">>),
     <<KW_INDEX>>, <<KW_INDEX, Num2(1)>>,
     <<TOK_REM, TOK_CDG>>, <<TOK_REM, KW_TRACK, Num2(1), MODE_AUDIO>>}

\* read_cue: an empty image, images of 150 and 225 sectors, and an image that
\* ends inside a sector
CueLengths ==
    {U64(0), Mul(U64(2 * 75), SECTOR_SIZE).val, Mul(U64(3 * 75), SECTOR_SIZE).val,
     U64(2 * SECTOR_SIZE + PartialSector)}

\* get_track_mode: every combination of the flags, every mode label and two
\* labels that are not mode labels
ModeArgs == {MakeArgs(A_BIN, A_CUE, <<"o">>, f) : f \in AllFlags}

ModeLines ==
    {TrackLine(Num2(1), label) :
        label \in {MODE_AUDIO, MODE1_2352, MODE2_2352, MODE2_2336, TOK_CDG,
                   <<"a", "u", "d", "i", "o">>}}

\* get_track_mode is followed over this many TRACK records
MaxModeTracks == 2

\* wav_header: the sector counts around the largest whose payload is below 2^32
WavSectors == SmallNat(Div(<<0, 0, 1, 0>>, SECTOR_SIZE))
\* wav_header: tracks start at frame 0..MaxWavFrame
MaxWavFrame == 3

WavArgs ==
    {MakeArgs(A_BIN, A_CUE, <<"o">>, Flags(FALSE, FALSE, w, FALSE)) : w \in BOOLEAN}

WavTimes == {TimeText(0, 0, f) : f \in 0..MaxWavFrame}

WavLengths ==
    {Mul(U64(k), SECTOR_SIZE).val :
        k \in (0..2) \cup ((WavSectors - 1)..(WavSectors + MaxWavFrame + 1))}

\* ------------------------------------------------------------------------
\* State
\* ------------------------------------------------------------------------

VARIABLES
    args,             \* the options (struct Args)
    overflow_checks,  \* the build panics on integer overflow (else it wraps)
    image_len,        \* the length of the image file, a u64
    pc,               \* the position of convert
    lines_read,       \* the number of sheet lines consumed
    last_line,        \* the sheet line consumed last (<<>> outside the loop)
    track_records,    \* history: the number of consumed lines that begin with TRACK
    tracks,           \* read_cue's `tracks`, then convert's
    result,           \* "Running", or how convert ended: "Ok", "Err", "Panic"
    error,            \* the message of the Err or of the panic
    ti,               \* the index of the track being written (1-based)
    sectors,          \* write_to_file's `sectors`
    iter,             \* the number of iterations of the copy loop done
    reader_pos,       \* the position of the shared reader in the image
    sector,           \* write_to_file's `sector` buffer
    files,            \* the output files: name -> bytes
    log               \* the I/O calls of the extraction, in order

vars == <<args, overflow_checks, image_len, pc, lines_read, last_line, track_records,
          tracks, result, error,
          ti, sectors, iter, reader_pos, sector, files, log>>

cue_vars == <<lines_read, last_line, track_records, tracks>>
io_vars == <<ti, sectors, iter, reader_pos, sector, files, log>>
input_vars == <<overflow_checks, image_len>>

InitOf(argsMenu, lengths) ==
    /\ args \in argsMenu
    /\ overflow_checks \in BOOLEAN
    /\ image_len \in lengths
    /\ pc = "new"
    /\ lines_read = 0
    /\ last_line = <<>>
    /\ track_records = 0
    /\ tracks = <<>>
    /\ result = "Running"
    /\ error = "-"
    /\ ti = 0
    /\ sectors = U64(0)
    /\ iter = 0
    /\ reader_pos = U64(0)
    /\ sector = <<>>
    /\ files = [n \in {} |-> <<>>]
    /\ log = <<>>

Init == InitOf(ConvertArgs, ConvertLengths)

\* a step of convert ended it: with an Err returned, or with a panic
Stop(r) ==
    /\ result' = r.result
    /\ error' = r.error
    /\ pc' = "end"

\* ------------------------------------------------------------------------
\* convert, up to the end of read_cue
\* ------------------------------------------------------------------------

\* let mut args = Args::new(options)  (lib.rs 452)
New ==
    /\ pc = "new"
    /\ args' = ArgsNew(args)
    /\ pc' = "read_to_string"
    /\ UNCHANGED <<cue_vars, io_vars, input_vars, result, error>>

\* std::fs::read_to_string(&args.cue_file)  (lib.rs 308-316)
ReadSheet ==
    /\ pc = "read_to_string"
    /\ IF args.cue_file \in SheetPaths
       THEN pc' = "lines" /\ UNCHANGED <<result, error>>
       ELSE Stop(Err(tracks, args, "Could not open CUE file"))
    /\ UNCHANGED <<args, cue_vars, io_vars, input_vars>>

\* one iteration of `for s in cue.lines()`  (lib.rs 318-413)
ReadLine(line) ==
    /\ pc = "lines"
    /\ lines_read < MaxLines
    /\ LET r == CueLine(line, tracks, args, overflow_checks)
       IN  /\ tracks' = r.tracks
           /\ args' = r.args
           /\ IF r.result = "Running"
              THEN pc' = "lines" /\ UNCHANGED <<result, error>>
              ELSE Stop(r)
    /\ lines_read' = lines_read + 1
    /\ last_line' = line
    /\ track_records' = IF Head(line) = KW_TRACK THEN track_records + 1 ELSE track_records
    /\ UNCHANGED <<io_vars, input_vars>>

\* the sheet is exhausted: the end of read_cue, which drops the line iterator
\* (lib.rs 414-431)
FinishCue ==
    /\ pc = "lines"
    /\ LET r == CueEnd(tracks, args, Metadata(args.bin_file, image_len), overflow_checks)
       IN  /\ tracks' = r.tracks
           /\ IF r.result = "Running"
              THEN pc' = "open" /\ UNCHANGED <<result, error>>
              ELSE Stop(r)
    /\ lines_read' = 0
    /\ last_line' = <<>>
    /\ UNCHANGED <<args, track_records, io_vars, input_vars>>

\* ------------------------------------------------------------------------
\* convert, from the opening of the image: Track::write_to_file per track
\* ------------------------------------------------------------------------

\* the track loop left after its first track
AllWritten_after_first(k, tr) == k > 1

\* `for t in &tracks` is exhausted after k - 1 tracks (lib.rs 468)
AllWritten(k, tr) == k > Len(tr)

Logged(op, ok) == Append(log, [op |-> op, track |-> ti, ok |-> ok])

\* fs::File::open(&args.bin_file) and the BufReader  (lib.rs 461-466)
OpenImage ==
    /\ pc = "open"
    /\ \E ok \in BOOLEAN :
          IF ok
          THEN /\ pc' = "track"
               /\ ti' = 1
               /\ reader_pos' = U64(0)
               /\ UNCHANGED <<result, error>>
          ELSE /\ Stop(Err(tracks, args, "os error"))
               /\ UNCHANGED <<ti, reader_pos>>
    /\ UNCHANGED <<args, cue_vars, input_vars, sectors, iter, sector, files, log>>

\* write_to_file, before any I/O: `sectors`, `file_length`, `sector`
\* (lib.rs 146-154)
TrackBegin ==
    /\ pc = "track"
    /\ ~AllWritten(ti, tracks)
    /\ LET t == tracks[ti]
       IN  IF IsNone(t.stop_sector)
           THEN /\ Stop(Panic(tracks, args, "unwrap on a None value"))
                /\ UNCHANGED <<sectors, sector>>
           ELSE IF overflow_checks /\ PayloadLength(t).ovf
           THEN /\ Stop(Panic(tracks, args, "arithmetic overflow"))
                /\ UNCHANGED <<sectors, sector>>
           ELSE /\ sectors' = SectorCount(t).val
                /\ sector' = ZeroSector
                /\ pc' = "create"
                /\ UNCHANGED <<result, error>>
    /\ iter' = 0
    /\ UNCHANGED <<args, cue_vars, input_vars, ti, reader_pos, files, log>>

\* fs::File::create(&filename) and the BufWriter  (lib.rs 156-167).
\* The BufWriter passes bytes on when its buffer fills and when it is dropped;
\* a write that fails is modelled at the call that hands over the bytes, and
\* the flush on drop, whose result the code cannot see, is taken to succeed:
\* a file holds the bytes of every write call that returned Ok.
TrackCreate ==
    /\ pc = "create"
    /\ \E ok \in BOOLEAN :
          /\ log' = Logged("create", ok)
          /\ IF ok
             THEN /\ files' = [n \in DOMAIN files \cup {OutputName(tracks[ti], args)} |->
                                  IF n = OutputName(tracks[ti], args) THEN <<>>
                                  ELSE files[n]]
                  /\ pc' = "seek"
                  /\ UNCHANGED <<result, error>>
             ELSE /\ Stop(Err(tracks, args, "Could not write to track:"))
                  /\ UNCHANGED files
    /\ UNCHANGED <<args, cue_vars, input_vars, ti, sectors, iter, reader_pos, sector>>

\* reader.seek(SeekFrom::Start(self.start))  (lib.rs 169-174)
TrackSeek ==
    /\ pc = "seek"
    /\ \E ok \in BOOLEAN :
          /\ log' = Logged("seek", ok)
          /\ IF ok
             THEN /\ reader_pos' = tracks[ti].start
                  /\ pc' = "header"
                  /\ UNCHANGED <<result, error>>
             ELSE /\ Stop(Err(tracks, args, "Could not seek to track location"))
                  /\ UNCHANGED reader_pos
    /\ UNCHANGED <<args, cue_vars, input_vars, ti, sectors, iter, sector, files>>

\* the WAV header, for an audio track when to_wav is set  (lib.rs 176-184)
TrackHeader ==
    /\ pc = "header"
    /\ LET t == tracks[ti]
           name == OutputName(t, args)
           h == wav_header(t)
           len == Add(PayloadLength(t).val, U64(WAV_HEADER_LENGTH))
       IN  IF NeedsHeader(t, args)
           THEN IF overflow_checks /\ (len.ovf \/ h.ovf)
                THEN /\ Stop(Panic(tracks, args, "arithmetic overflow"))
                     /\ UNCHANGED <<files, log>>
                ELSE \E ok \in BOOLEAN :
                        /\ log' = Logged("write", ok)
                        /\ IF ok
                           THEN /\ files' = [files EXCEPT ![name] = @ \o h.bytes]
                                /\ pc' = "copy"
                                /\ UNCHANGED <<result, error>>
                           ELSE /\ Stop(Err(tracks, args, "Could not write to track"))
                                /\ UNCHANGED files
           ELSE /\ pc' = "copy"
                /\ UNCHANGED <<result, error, files, log>>
    /\ UNCHANGED <<args, cue_vars, input_vars, ti, sectors, iter, reader_pos, sector>>

\* one iteration of `for _ in 0..sectors`: read, swap, write  (lib.rs 186-207)
TrackCopy ==
    /\ pc = "copy"
    /\ iter < MaxCopies
    /\ Less(U64(iter), sectors)
    /\ LET t == tracks[ti]
           name == OutputName(t, args)
           n == ReadCount(reader_pos, image_len)
           filled == ReadInto(sector, reader_pos, n)
           swapped == IF t.audio /\ args.swap_audo_bytes THEN SwapPairs(filled)
                      ELSE filled
       IN  \E outcome \in {"ok", "read fails", "write fails"} :
              IF outcome = "read fails"
              THEN /\ log' = Logged("read", FALSE)
                   /\ Stop(Err(tracks, args, "Could not read from"))
                   /\ UNCHANGED <<reader_pos, sector, files, iter>>
              ELSE /\ reader_pos' = Add(reader_pos, U64(n)).val
                   /\ sector' = swapped
                   /\ IF outcome = "write fails"
                      THEN /\ log' = Append(Logged("read", TRUE),
                                            [op |-> "write", track |-> ti, ok |-> FALSE])
                           /\ Stop(Err(tracks, args, "Could not write to track"))
                           /\ UNCHANGED <<files, iter>>
                      ELSE /\ log' = Append(Logged("read", TRUE),
                                            [op |-> "write", track |-> ti, ok |-> TRUE])
                           /\ files' = [files EXCEPT ![name] = @ \o PayloadSlice(swapped, t)]
                           /\ iter' = iter + 1
                           /\ UNCHANGED <<pc, result, error>>
    /\ UNCHANGED <<args, cue_vars, input_vars, ti, sectors>>

\* the loop is exhausted: write_to_file returns Ok(())  (lib.rs 209-218, 468-473)
TrackEnd ==
    /\ pc = "copy"
    /\ ~Less(U64(iter), sectors)
    /\ ti' = ti + 1
    /\ pc' = "track"
    /\ UNCHANGED <<args, cue_vars, input_vars, result, error, sectors, iter,
                   reader_pos, sector, files, log>>

\* every track is written: convert returns Ok(())  (lib.rs 475)
Done ==
    /\ pc = "track"
    /\ AllWritten(ti, tracks)
    /\ result' = "Ok"
    /\ pc' = "end"
    /\ UNCHANGED <<args, cue_vars, input_vars, io_vars, error>>

ReadCue(menu) ==
    \/ New
    \/ ReadSheet
    \/ \E line \in menu : ReadLine(line)
    \/ FinishCue

WriteTracks ==
    \/ OpenImage
    \/ TrackBegin
    \/ TrackCreate
    \/ TrackSeek
    \/ TrackHeader
    \/ TrackCopy
    \/ TrackEnd
    \/ Done

Next == ReadCue(ConvertLines) \/ WriteTracks

Spec == Init /\ [][Next]_vars

\* read_cue alone, on sheets of every kind of line
InitCue == InitOf(CueArgs, CueLengths)
NextCue == ReadCue(CueLines)
SpecCue == InitCue /\ [][NextCue]_vars

\* the TRACK records alone, under every combination of the flags
InitMode == InitOf(ModeArgs, {U64(SECTOR_SIZE)})
NextMode ==
    \/ New
    \/ ReadSheet
    \/ \E line \in ModeLines : Len(tracks) < MaxModeTracks /\ ReadLine(line)
SpecMode == InitMode /\ [][NextMode]_vars

\* what read_cue returns for the sheet of one audio track, "TRACK 01 AUDIO"
\* then "INDEX 01 <time>", and an image of len bytes
OneAudioTrack(a, time, len, chk) ==
    CueEnd(CueIndex(IndexLine(Num2(1), time),
                    CueTrack(TrackLine(Num2(1), MODE_AUDIO), <<>>, a).tracks, a, chk).tracks,
           a, Some(len), chk)

\* write_to_file up to the WAV header, on one audio track of any length: convert
\* has read the sheet and opened the image
InitWav ==
    \E a \in WavArgs, time \in WavTimes :
        /\ overflow_checks \in BOOLEAN
        /\ image_len \in WavLengths
        /\ OneAudioTrack(a, time, image_len, overflow_checks).result = "Running"
        /\ tracks = OneAudioTrack(a, time, image_len, overflow_checks).tracks
        /\ args = ArgsNew(a)
        /\ pc = "track"
        /\ lines_read = 0
        /\ last_line = <<>>
        /\ track_records = 1
        /\ result = "Running"
        /\ error = "-"
        /\ ti = 1
        /\ sectors = U64(0)
        /\ iter = 0
        /\ reader_pos = U64(0)
        /\ sector = <<>>
        /\ files = [n \in {} |-> <<>>]
        /\ log = <<>>
NextWav ==
    \/ TrackBegin
    \/ TrackCreate
    \/ TrackSeek
    \/ TrackHeader
SpecWav == InitWav /\ [][NextWav]_vars

RECURSIVE CueLines_of(_, _, _, _)
\* the loop of read_cue over the lines of a sheet that gives no error: the
\* tracks and the options after the last line
CueLines_of(lines, tr, a, chk) ==
    IF lines = <<>> THEN Continue(tr, a)
    ELSE LET r == CueLine(Head(lines), tr, a, chk)
         IN  CueLines_of(Tail(lines), r.tracks, r.args, chk)

\* the sheet of an audio track of one sector followed by a MODE2/2352 track
SwapSheet ==
    <<TrackLine(Num2(1), MODE_AUDIO), IndexLine(Num2(1), TimeText(0, 0, 0)),
      TrackLine(Num2(2), MODE2_2352), IndexLine(Num2(1), TimeText(0, 0, 1))>>

SwapArgs ==
    {MakeArgs(A_BIN, A_CUE, <<"o">>, Flags(FALSE, p, w, s)) :
        p \in BOOLEAN, w \in BOOLEAN, s \in BOOLEAN}

\* images of two sectors and more
SwapLengths == {Mul(U64(k + 1), SECTOR_SIZE).val : k \in 1..MaxSectors}

\* the sector loop with and without the exchange of bytes: convert has read
\* SwapSheet and opened the image
InitSwap ==
    \E a \in SwapArgs :
        /\ overflow_checks \in BOOLEAN
        /\ image_len \in SwapLengths
        /\ tracks = CueEnd(CueLines_of(SwapSheet, <<>>, ArgsNew(a), overflow_checks).tracks,
                           ArgsNew(a), Some(image_len), overflow_checks).tracks
        /\ args = ArgsNew(a)
        /\ pc = "track"
        /\ lines_read = 0
        /\ last_line = <<>>
        /\ track_records = 2
        /\ result = "Running"
        /\ error = "-"
        /\ ti = 1
        /\ sectors = U64(0)
        /\ iter = 0
        /\ reader_pos = U64(0)
        /\ sector = <<>>
        /\ files = [n \in {} |-> <<>>]
        /\ log = <<>>
NextSwap ==
    \/ TrackBegin
    \/ TrackCreate
    \/ TrackSeek
    \/ TrackHeader
    \/ TrackCopy
    \/ TrackEnd
    \/ Done
SpecSwap == InitSwap /\ [][NextSwap]_vars

\* time_to_frames: minutes up to MaxMinutes
MaxMinutes == 99

TimeMinutes == {0, 1, MaxMinutes}
TimeSeconds == {0, 2, 59}
TimeFrames == {0, 1, 74}

TimeArgs == {MakeArgs(A_BIN, A_CUE, <<"o">>, Flags(FALSE, FALSE, FALSE, FALSE))}

\* a TRACK record, and INDEX records with the times of the three sets
TimeLines ==
    {TrackLine(Num2(1), MODE_AUDIO)}
        \cup {IndexLine(Num2(1), TimeText(m, sec, f)) :
                 m \in TimeMinutes, sec \in TimeSeconds, f \in TimeFrames}

\* read_cue over one TRACK record and INDEX records
InitTime == InitOf(TimeArgs, {U64(SECTOR_SIZE)})
NextTime ==
    \/ New
    \/ ReadSheet
    \/ \E line \in TimeLines :
          (Head(line) = KW_TRACK => tracks = <<>>) /\ ReadLine(line)
SpecTime == InitTime /\ [][NextTime]_vars

\* ------------------------------------------------------------------------
\* Properties
\* ------------------------------------------------------------------------

\* the track whose write_to_file has just returned Ok(())
JustWritten == pc = "track" /\ ti > 1

\* the length of the WAV header in the output of track t
HeaderLength(t) == IF args.to_wav /\ t.audio THEN 44 ELSE 0

\* C1: when write_to_file returns for a track (taken without the byte swap),
\* its output after the header is, sector by sector from start_sector to
\* stop_sector, the bytes [s*2352 + data_block_offset, s*2352 +
\* data_block_offset + data_block_size) of the image, all of them bytes the
\* image has.
C1_PayloadIsImageWindow ==
    (JustWritten /\ ~(tracks[ti - 1].audio /\ args.swap_audo_bytes)) =>
        LET t == tracks[ti - 1]
            first == SmallNat(t.start_sector)
            last == SmallNat(Unwrap(t.stop_sector))
            hdr == HeaderLength(t)
            content == files[OutputName(t, args)]
        IN  /\ Len(content) = hdr + (last - first + 1) * t.data_block_size
            /\ \A s \in first..last : \A j \in 0..(t.data_block_size - 1) :
                  /\ Less(U64(s * SECTOR_SIZE + t.data_block_offset + j), image_len)
                  /\ content[hdr + (s - first) * t.data_block_size + j + 1]
                       = ImageByte(s * SECTOR_SIZE + t.data_block_offset + j)

\* read_cue has returned Ok((tracks, args))
CueReturned == pc = "open"

\* C2: once read_cue has returned, every track but the last has stop_sector
\* one below the start_sector of the track after it and stop one below that
\* track's start.
C2_StopIsNextStartMinusOne ==
    CueReturned =>
        \A k \in 1..(Len(tracks) - 1) :
            LET t == tracks[k]
                next == tracks[k + 1]
            IN  /\ IsSome(t.stop_sector)
                /\ ~Sub(next.start_sector, U64(1)).ovf
                /\ Unwrap(t.stop_sector) = Sub(next.start_sector, U64(1)).val
                /\ IsSome(t.stop)
                /\ ~Sub(next.start, U64(1)).ovf
                /\ Unwrap(t.stop) = Sub(next.start, U64(1)).val

\* C3: once read_cue has returned, the last track has stop equal to the image
\* length minus one and stop_sector equal to stop divided by 2352, rounded
\* down, whatever the image length is.
C3_LastStopIsImageEnd ==
    CueReturned =>
        LET t == LastOf(tracks)
        IN  /\ IsSome(t.stop)
            /\ ~Sub(image_len, U64(1)).ovf
            /\ Unwrap(t.stop) = Sub(image_len, U64(1)).val
            /\ IsSome(t.stop_sector)
            /\ Unwrap(t.stop_sector) = Div(Unwrap(t.stop), SECTOR_SIZE)

\* C9: once read_cue has returned, every track has stop and stop_sector
\* resolved; a track list with an unresolved stop never reaches extraction.
C9_EveryStopResolved ==
    CueReturned =>
        \A k \in 1..Len(tracks) :
            IsSome(tracks[k].stop) /\ IsSome(tracks[k].stop_sector)

\* C10: a run over a sheet that was read and holds no TRACK record ends with
\* a returned error, whatever its other lines are: it neither panics nor
\* goes on to extraction.
C10_NoTrackIsAnError ==
    (track_records = 0 /\ pc \notin {"new", "read_to_string", "lines"}) =>
        result = "Err"

\* the number of sectors in the range of track t, for ranges that fit
SectorsOf(t) == SmallNat(Unwrap(t.stop_sector)) - SmallNat(t.start_sector) + 1

\* a byte that came out of the sector buffer: an image byte or a zero
IsBufferByte(b) == b = 0 \/ b >= 256

\* C5: the output of a track begins with the WAV header exactly when the
\* track is audio and to_wav is set, and is then 44 bytes plus one
\* data_block_size slice per sector written; any other output has no header
\* and is one slice per sector written, so that a finished file has
\* (stop_sector - start_sector + 1) * data_block_size bytes after the header.
C5_HeaderIffAudioWav ==
    (pc = "copy" \/ JustWritten) =>
        LET t == IF pc = "copy" THEN tracks[ti] ELSE tracks[ti - 1]
            written == IF pc = "copy" THEN iter ELSE SectorsOf(t)
            content == files[OutputName(t, args)]
        IN  IF t.audio /\ args.to_wav
            THEN /\ Len(content) = 44 + written * t.data_block_size
                 /\ SubSeq(content, 1, 4) = AsBytes(<<"R", "I", "F", "F">>)
                 /\ SubSeq(content, 9, 16)
                      = AsBytes(<<"W", "A", "V", "E", "f", "m", "t", " ">>)
                 /\ SubSeq(content, 37, 40) = AsBytes(<<"d", "a", "t", "a">>)
                 /\ \A i \in 45..Len(content) : IsBufferByte(content[i])
            ELSE /\ Len(content) = written * t.data_block_size
                 /\ \A i \in 1..Len(content) : IsBufferByte(content[i])

\* the steps of convert that belong to Args::new and read_cue
ParsePcs == {"new", "read_to_string", "lines"}

\* the logged operations on track k
LogOf(k) == SelectSeq(log, LAMBDA e : e.track = k)

\* the log holds everything write_to_file does for track k
FullyLogged(k) ==
    LET ops == LogOf(k)
        t == tracks[k]
        writes == SelectSeq(ops, LAMBDA e : e.op = "write")
    IN  /\ Len(ops) >= 2
        /\ ops[1].op = "create"
        /\ ops[2].op = "seek"
        /\ Len(writes) = SectorsOf(t) + (IF t.audio /\ args.to_wav THEN 1 ELSE 0)
        /\ \A i \in 1..Len(ops) : ops[i].ok

\* C7: convert finishes read_cue before it creates any output; it writes the
\* tracks in the order of the list, each one completely before the next is
\* created; a failed operation is the last one of the run and makes the run
\* return an error; the run returns Ok only after every track is written.
C7_ConvertOrder ==
    /\ pc \in ParsePcs => (log = <<>> /\ DOMAIN files = {})
    /\ Len(log) > 0 => (log[1].track = 1 /\ log[1].op = "create")
    /\ \A i \in 1..(Len(log) - 1) :
          /\ log[i].ok
          /\ \/ log[i + 1].track = log[i].track
             \/ /\ log[i + 1].track = log[i].track + 1
                /\ log[i + 1].op = "create"
                /\ FullyLogged(log[i].track)
    /\ (Len(log) > 0 /\ ~log[Len(log)].ok) => (pc = "end" /\ result = "Err")
    /\ result = "Ok" =>
          /\ pc = "end"
          /\ \A k \in 1..Len(tracks) : FullyLogged(k)

\* the image ends before the first sector of the last track
TooShort ==
    /\ pc \notin ParsePcs
    /\ tracks # <<>>
    /\ IsSome(LastOf(tracks).stop_sector)
    /\ Less(Unwrap(LastOf(tracks).stop_sector), LastOf(tracks).start_sector)

\* C8: when the image is too short for the last track, so that its range has
\* start_sector above stop_sector, the run creates no output for that track
\* and ends with a returned error.
C8_ShortImageIsAnError ==
    TooShort =>
        /\ result \in {"Running", "Err"}
        /\ LogOf(Len(tracks)) = <<>>

\* the row of the mode table for a mode label and the flags:
\* <<data_block_offset, data_block_size, extension, audio>>
ModeRow(label, a) ==
    CASE label = MODE_AUDIO ->
           <<0, 2352, IF a.to_wav THEN <<"w", "a", "v">> ELSE <<"c", "d", "r">>, TRUE>>
      [] label = MODE1_2352 -> <<16, 2048, <<"i", "s", "o">>, FALSE>>
      [] label = MODE2_2352 /\ a.raw -> <<0, 2352, <<"i", "s", "o">>, FALSE>>
      [] label = MODE2_2352 /\ ~a.raw /\ a.psx_truncate ->
           <<0, 2336, <<"i", "s", "o">>, FALSE>>
      [] label = MODE2_2352 /\ ~a.raw /\ ~a.psx_truncate ->
           <<24, 2048, <<"i", "s", "o">>, FALSE>>
      [] label = MODE2_2336 -> <<16, 2336, <<"i", "s", "o">>, FALSE>>
      [] OTHER -> <<0, 2352, <<"u", "g", "h">>, FALSE>>

\* the last line consumed was a TRACK record with a number and a mode label
TrackRecordRead ==
    /\ last_line # <<>>
    /\ Head(last_line) = KW_TRACK
    /\ Len(last_line) >= 3
    /\ tracks # <<>>

C5_Witness ==
    /\ JustWritten
    /\ ti = 3
    /\ args.to_wav
    /\ tracks[1].audio /\ ~tracks[2].audio
    /\ Len(files[OutputName(tracks[1], args)]) = 44 + 2352
    /\ Len(files[OutputName(tracks[2], args)]) = 2048

\* the four bytes of the low 32 bits of x, least significant first
Bytes4(x) == <<x[1] % 256, x[1] \div 256, x[2] % 256, x[2] \div 256>>

\* (stop_sector - start_sector + 1) * data_block_size in 64 bits
Payload64(t) ==
    Mul(Add(Sub(Unwrap(t.stop_sector), t.start_sector).val, U64(1)).val,
        t.data_block_size)

\* the payload length of t is in [0, 2^32 - 9)
PayloadInRange(t) ==
    /\ ~Less(Unwrap(t.stop_sector), t.start_sector)
    /\ ~Payload64(t).ovf
    /\ Less(Payload64(t).val, <<65527, 65535, 0, 0>>)

\* the header has been written to the output of the current track
HeaderWritten == pc = "copy" /\ args.to_wav /\ tracks[ti].audio

\* C6: for a payload length in [0, 2^32 - 9) the header write_to_file puts out
\* is 44 bytes: "RIFF", payload + 36, "WAVE", "fmt ", 16, 1, 2, 44100, 176400,
\* 4, 16, "data", payload, the numbers little-endian in 4, 4, 2, 2, 4, 4, 2, 2
\* and 4 bytes.
C6_WavHeaderFields ==
    (HeaderWritten /\ PayloadInRange(tracks[ti])) =>
        LET t == tracks[ti]
            content == files[OutputName(t, args)]
        IN  /\ Len(content) >= 44
            /\ SubSeq(content, 1, 44) =
                    <<82, 73, 70, 70>>
                 \o Bytes4(Add(Payload64(t).val, U64(36)).val)
                 \o <<87, 65, 86, 69>>
                 \o <<102, 109, 116, 32>>
                 \o <<16, 0, 0, 0>>
                 \o <<1, 0>>
                 \o <<2, 0>>
                 \o <<68, 172, 0, 0>>
                 \o <<16, 177, 2, 0>>
                 \o <<4, 0>>
                 \o <<16, 0>>
                 \o <<100, 97, 116, 97>>
                 \o Bytes4(Payload64(t).val)

\* C6 witness: the header of the longest audio track whose payload is below
\* 2^32 bytes
C6_Witness ==
    /\ HeaderWritten
    /\ PayloadInRange(tracks[ti])
    /\ SectorsOf(tracks[ti]) = WavSectors
    /\ Len(files[OutputName(tracks[ti], args)]) = 44

\* C7 witness: a run over two tracks of at least one sector each returns Ok
C7_Witness ==
    /\ result = "Ok"
    /\ Len(tracks) = 2
    /\ SectorsOf(tracks[1]) >= 1
    /\ SectorsOf(tracks[2]) >= 1
    /\ log[Len(log)].track = 2

\* every character of s is a decimal digit, and there is one at least
AllDigits(s) == s # <<>> /\ \A i \in 1..Len(s) : IsDigit(s[i])

\* the components mm, ss, ff of a time are numeric
NumericTime(time) ==
    \A k \in 1..Len(Split(time, ":")) : k <= 3 => AllDigits(Split(time, ":")[k])

\* line is an INDEX record: the keyword, an index number and a time
IndexRecord(line) == line # <<>> /\ Head(line) = KW_INDEX /\ Len(line) >= 3

\* C11: once an INDEX record whose time has a non-numeric component is read,
\* the run has ended with an error returned to the caller of convert, and no
\* output file exists.
C11_BadTimeIsAnError ==
    (IndexRecord(last_line) /\ ~NumericTime(last_line[3])) =>
        (pc = "end" /\ result = "Err" /\ DOMAIN files = {})

\* C12: an iteration of the sector loop whose read delivers fewer than 2352
\* bytes ends write_to_file with an error, and writes nothing to the output.
C12_ShortReadIsFatal ==
    [][(pc = "copy" /\ log' # log /\ ReadCount(reader_pos, image_len) < SECTOR_SIZE)
          => (result' = "Err" /\ files' = files)]_vars

\* the other byte of the pair that byte i of a sector is in (i counted from 0)
PairOf(i) == IF i % 2 = 0 THEN i + 1 ELSE i - 1

\* every read of the current track so far delivered a whole sector
WholeSectorsRead ==
    /\ pc = "copy"
    /\ iter >= 1
    /\ SmallNat(reader_pos) = SmallNat(tracks[ti].start) + iter * SECTOR_SIZE
    /\ ~Less(image_len, reader_pos)

\* C13: after a whole sector is read and written, on an audio track with
\* swap_audo_bytes set the buffer holds the sector with bytes 2k and 2k+1
\* exchanged for every k in 0..1175, and the slice written is the window of
\* that exchanged sector, so that pairs are those of the full sector; on any
\* other track the buffer holds the sector as read.  Exchanging twice gives
\* back the buffer.
C13_SwapPairsOfSector ==
    /\ WholeSectorsRead =>
          LET t == tracks[ti]
              at == SmallNat(reader_pos) - SECTOR_SIZE
              content == files[OutputName(t, args)]
              swap == t.audio /\ args.swap_audo_bytes
          IN  /\ \A i \in 0..(SECTOR_SIZE - 1) :
                    sector[i + 1] = ImageByte(at + (IF swap THEN PairOf(i) ELSE i))
              /\ \A j \in 0..(t.data_block_size - 1) :
                    content[Len(content) - t.data_block_size + j + 1]
                       = ImageByte(at + (IF swap THEN PairOf(t.data_block_offset + j)
                                         ELSE t.data_block_offset + j))
    /\ Len(sector) = SECTOR_SIZE => SwapPairs(SwapPairs(sector)) = sector

\* C13 witness: a whole sector of an audio track went through the exchange
C13_Witness ==
    /\ WholeSectorsRead
    /\ tracks[ti].audio /\ args.swap_audo_bytes
    /\ sector[1] = ImageByte(SmallNat(reader_pos) - SECTOR_SIZE + 1)
    /\ sector[2] = ImageByte(SmallNat(reader_pos) - SECTOR_SIZE)
    /\ files[OutputName(tracks[ti], args)][Len(files[OutputName(tracks[ti], args)])]
          = ImageByte(SmallNat(reader_pos) - 2)

\* line is an INDEX record with a numeric time
TimedIndex(line) == IndexRecord(line) /\ NumericTime(line[3])

\* C14: when the line read last was an INDEX record of the current track and
\* the next line is an INDEX record too, that line is accepted without error
\* and leaves start_sector and start of the track as the first one set them.
C14_FirstIndexSetsStart ==
    [][(/\ pc = "lines"
        /\ tracks # <<>>
        /\ TimedIndex(last_line)
        /\ lines_read' = lines_read + 1
        /\ TimedIndex(last_line'))
          => (/\ result' = "Running"
              /\ Len(tracks') = Len(tracks)
              /\ LastOf(tracks').start_sector = LastOf(tracks).start_sector
              /\ LastOf(tracks').start = LastOf(tracks).start)]_vars

\* C15: time_to_frames gives 150 for "00:02:00" and 4500 for "01:00:00"; after
\* an INDEX record with the time mm:ss:ff the current track has start_sector
\* 75 * (mm * 60 + ss) + ff and start 2352 times that.
C15_IndexTimeSetsStart ==
    /\ time_to_frames(TimeText(0, 2, 0)) = [ok |-> TRUE, val |-> U64(150), ovf |-> FALSE]
    /\ time_to_frames(TimeText(1, 0, 0)) = [ok |-> TRUE, val |-> U64(4500), ovf |-> FALSE]
    /\ (pc = "lines" /\ tracks # <<>> /\ IndexRecord(last_line)) =>
          \A m \in TimeMinutes, sec \in TimeSeconds, f \in TimeFrames :
              last_line[3] = TimeText(m, sec, f) =>
                  /\ LastOf(tracks).start_sector = U64(75 * (m * 60 + sec) + f)
                  /\ LastOf(tracks).start = U64((75 * (m * 60 + sec) + f) * 2352)

\* C15 witness: the track after the INDEX record with the time 01:00:00
C15_Witness ==
    /\ pc = "lines"
    /\ tracks # <<>>
    /\ IndexRecord(last_line)
    /\ last_line[3] = <<"0", "1", ":", "0", "0", ":", "0", "0">>
    /\ LastOf(tracks).start_sector = U64(4500)
    /\ LastOf(tracks).start = U64(4500 * 2352)

\* C16: reading a line whose first token is none of FILE, TRACK and INDEX
\* adds no track, changes no field of a track or of the options, and gives
\* no error, whatever its other tokens are.
C16_OtherLinesIgnored ==
    [][(/\ pc = "lines"
        /\ lines_read' = lines_read + 1
        /\ Head(last_line') \notin {KW_FILE, KW_TRACK, KW_INDEX})
          => (tracks' = tracks /\ args' = args /\ result' = "Running")]_vars

\* write_to_file has created the output file of track k
Created(k) ==
    \E i \in 1..Len(log) : log[i].track = k /\ log[i].op = "create" /\ log[i].ok

\* the byte range of track t is not empty and lies in the image
InImage(t) ==
    /\ IsSome(t.stop)
    /\ ~Less(Unwrap(t.stop), t.start)
    /\ Less(Unwrap(t.stop), image_len)

\* C17: no two tracks of a run create the same output file, so that no track
\* truncates or overwrites what another track wrote (stated for tracks whose
\* ranges lie in the image).
C17_OutputsExclusive ==
    \A k \in 1..Len(tracks) : \A l \in 1..Len(tracks) :
        (k < l /\ InImage(tracks[k]) /\ InImage(tracks[l]) /\ Created(k) /\ Created(l))
            => OutputName(tracks[k], args) # OutputName(tracks[l], args)

\* what 0 - 1 wraps to in 64 bits
Wrapped == Sub(U64(0), U64(1)).val

\* C18: the boundary arithmetic of read_cue never goes below zero: no
\* subtraction panics, no stop or stop_sector is the wrapped value of 0 - 1,
\* and every track read_cue returns with a stop_sector has start_sector at most
\* stop_sector, so that its sector count is 1 at least.
C18_NoUnderflow ==
    /\ error # "attempt to subtract with overflow"
    /\ \A k \in 1..Len(tracks) :
          /\ IsSome(tracks[k].stop) => Unwrap(tracks[k].stop) # Wrapped
          /\ IsSome(tracks[k].stop_sector) => Unwrap(tracks[k].stop_sector) # Wrapped
    /\ CueReturned =>
          \A k \in 1..Len(tracks) :
              IsSome(tracks[k].stop_sector)
                 => ~Less(Unwrap(tracks[k].stop_sector), tracks[k].start_sector)

=============================================================================
